---- MODULE Spec2Model ----
(***************************************************************************)
(* Model of the Gencat audio segmenter (src/src/segmenter/                 *)
(* gencat_segmenter.py, scripts/segmenter_main.py).                        *)
(*                                                                         *)
(* Two specifications share the module:                                    *)
(*   Spec     the batch: main() constructs a GencatSegmenter and walks the *)
(*            corpus with process_directory; the disk (completion          *)
(*            markers, clips, segments.csv) survives process restarts.     *)
(*   SpecSeg  _extract_sentences_ffmpeg as a function of the word list     *)
(*            returned by the alignment service.                           *)
(*                                                                         *)
(* Text is modelled as a sequence of one-character strings, so that        *)
(* endswith, strip, lower and substring tests are computed, not assumed.   *)
(* Times are integers (tenths of a second); float() of a number keeps its  *)
(* value.                                                                  *)
(***************************************************************************)
EXTENDS Integers, Sequences, FiniteSets, TLC

\* ------------------------------------------------------------------ bounds
\* longest word list handed to _extract_sentences_ffmpeg in SpecSeg
MaxWords == 4
\* topic directories in the corpus
NumTopics == 2
\* process starts (runs of scripts/segmenter_main.py) in one behaviour
MaxRuns == 2
\* failures of the environment in one behaviour: alignment calls that fail,
\* ffmpeg exits other than 0, manifest appends that raise, interrupts
MaxFaults == 1

\* pieces a raw transcript is put together from
MaxPieces == 4
MaxTranscript == 4
MaxScrapeRuns == 2

\* ------------------------------------------------------------- text helpers
Last(s) == s[Len(s)]

Range(s) == {s[i] : i \in 1..Len(s)}

IsPrefix(s, t) == Len(s) <= Len(t) /\ SubSeq(t, 1, Len(s)) = s

\* str.endswith(c) for a one-character suffix
EndsWith(s, c) == Len(s) > 0 /\ s[Len(s)] = c

\* characters str.strip() and \s treat as whitespace
Whitespace == {" ", "\n", "\t"}

RECURSIVE LStrip(_)
LStrip(s) == IF Len(s) > 0 /\ Head(s) \in Whitespace THEN LStrip(Tail(s)) ELSE s

RECURSIVE RStrip(_)
RStrip(s) ==
    IF Len(s) > 0 /\ s[Len(s)] \in Whitespace
    THEN RStrip(SubSeq(s, 1, Len(s) - 1))
    ELSE s

\* str.strip()
Strip(s) == RStrip(LStrip(s))

\* "".join(ss)
RECURSIVE Flatten(_)
Flatten(ss) == IF ss = <<>> THEN <<>> ELSE Head(ss) \o Flatten(Tail(ss))

\* ------------------------------------------------------------ word texts
Generalitat == <<"G", "e", "n", "e", "r", "a", "l", "i", "t", "a", "t">>
de == <<"d", "e">>
Catalunya == <<"C", "a", "t", "a", "l", "u", "n", "y", "a">>
Hola == <<"H", "o", "l", "a">>
Bon == <<"B", "o", "n">>
DiaDot == <<"d", "i", "a", ".">>
Adeu == <<"A", "d", "e", "u">>
AmicDot == <<"a", "m", "i", "c", ".">>
JaBang == <<"j", "a", "!">>
QueQ == <<"q", "u", "e", "?">>
EmptyText == <<>>

\* texts the alignment service may return for one word
WordTexts ==
    {Generalitat, de, Catalunya, Hola, Bon, DiaDot, Adeu, AmicDot, JaBang,
     QueQ, EmptyText}

\* seconds (in tenths) one word may last
Durations == {1, 2}

\* one per-word record of the service: {"word": .., "start": .., "end": ..}
WordData(w, s, e) == [word |-> w, start |-> s, end |-> e]

\* --------------------------------------------- _extract_sentences_ffmpeg
\* generalitat_index is None
NoIndex == -1

\* the search loop of lines 182-190, from 0-based position i on
RECURSIVE FindGeneralitat_first(_, _)
FindGeneralitat_first(alignment_result, i) ==
    IF i >= Len(alignment_result) THEN NoIndex
    ELSE IF alignment_result[i + 1].word = Generalitat
         THEN IF /\ i + 2 < Len(alignment_result)
                 /\ alignment_result[i + 2].word = de
                 /\ alignment_result[i + 3].word = Catalunya
              THEN i
              ELSE NoIndex
         ELSE FindGeneralitat_first(alignment_result, i + 1)

RECURSIVE FindGeneralitat(_, _)
FindGeneralitat(alignment_result, i) ==
    IF i >= Len(alignment_result) THEN NoIndex
    ELSE IF /\ alignment_result[i + 1].word = Generalitat
            /\ i + 2 < Len(alignment_result)
            /\ alignment_result[i + 2].word = de
            /\ alignment_result[i + 3].word = Catalunya
         THEN i
         ELSE FindGeneralitat(alignment_result, i + 1)

MaxIndex_short(alignment_result) ==
    LET generalitat_index == FindGeneralitat(alignment_result, 0)
        n == IF generalitat_index # NoIndex
             THEN generalitat_index
             ELSE Len(alignment_result)
    IN  IF n > 0 THEN n - 1 ELSE 0

\* max_index (line 193)
MaxIndex(alignment_result) ==
    LET generalitat_index == FindGeneralitat(alignment_result, 0)
    IN  IF generalitat_index # NoIndex
        THEN generalitat_index
        ELSE Len(alignment_result)

EndsSentence_noq(word) == EndsWith(word, ".") \/ EndsWith(word, "!")

\* the boundary test of line 202
EndsSentence(word) ==
    EndsWith(word, ".") \/ EndsWith(word, "!") \/ EndsWith(word, "?")

DigitChars == <<"0", "1", "2", "3", "4", "5", "6", "7", "8", "9">>

\* str(n) for a natural number
RECURSIVE Str(_)
Str(n) ==
    IF n < 10 THEN <<DigitChars[n + 1]>>
    ELSE Str(n \div 10) \o <<DigitChars[(n % 10) + 1]>>

\* f"{level}_{topic_sanitized}_sentence{sentence_index}.mp3" (lines 214, 255)
Filename(level, topic_sanitized, sentence_index) ==
    level \o <<"_">> \o topic_sanitized
        \o <<"_", "s", "e", "n", "t", "e", "n", "c", "e">>
        \o Str(sentence_index) \o <<".", "m", "p", "3">>

SentenceIndex_zero(sentences) == Len(sentences)

\* sentence_index = len(sentences) + 1 (lines 213, 254)
SentenceIndex(sentences) == Len(sentences) + 1

\* one entry of the sentences list (lines 204-235, 245-276); duration is the
\* -t argument handed to _extract_audio_segment, words is current_sentence
MakeSentence(current_sentence, current_text, sentences, level, topic_sanitized) ==
    LET first_word == current_sentence[1]
        last_word == current_sentence[Len(current_sentence)]
        sentence_start == first_word.start
        sentence_end == last_word.end
        sentence_index == SentenceIndex(sentences)
    IN  [filename |-> Filename(level, topic_sanitized, sentence_index),
         transcript |-> Strip(current_text),
         start_time |-> sentence_start,
         end_time |-> sentence_end,
         duration |-> sentence_end - sentence_start,
         words |-> current_sentence]

Remainder_dropped(sentences, current_sentence, current_text, level, topic_sanitized) ==
    sentences

\* lines 243-280: the words left in the buffer become a last sentence
Remainder(sentences, current_sentence, current_text, level, topic_sanitized) ==
    IF current_sentence # <<>>
    THEN Append(sentences,
                MakeSentence(current_sentence, current_text, sentences,
                             level, topic_sanitized))
    ELSE sentences

\* the loop of lines 195-241 over alignment_result[:max_index], from the
\* 1-based position i on, followed by the remainder handling
RECURSIVE SentenceLoop(_, _, _, _, _, _, _)
SentenceLoop(words, i, sentences, current_sentence, current_text, level, topic_sanitized) ==
    IF i > Len(words)
    THEN Remainder(sentences, current_sentence, current_text, level, topic_sanitized)
    ELSE LET word == words[i].word
             sentence2 == Append(current_sentence, words[i])
             text2 == current_text \o word \o <<" ">>
         IN  IF EndsSentence(word)
             THEN SentenceLoop(words, i + 1,
                               Append(sentences,
                                      MakeSentence(sentence2, text2, sentences,
                                                   level, topic_sanitized)),
                               <<>>, <<>>, level, topic_sanitized)
             ELSE SentenceLoop(words, i + 1, sentences, sentence2, text2,
                               level, topic_sanitized)

Slice_all(alignment_result, max_index) == alignment_result

\* alignment_result[:max_index] (line 195)
Slice(alignment_result, max_index) == SubSeq(alignment_result, 1, max_index)

\* the sentences _extract_sentences_ffmpeg returns for a list of word records
extract_sentences_ffmpeg(alignment_result, level, topic_sanitized) ==
    SentenceLoop(Slice(alignment_result, MaxIndex(alignment_result)), 1,
                 <<>>, <<>>, <<>>, level, topic_sanitized)

\* ------------------------------------------------------------ the corpus
\* audio file names found in topic directories
LentMp3 == <<"l", "e", "n", "t", ".", "m", "p", "3">>
RapidMp3 == <<"r", "a", "p", "i", "d", ".", "m", "p", "3">>
Rapid2Mp3 == <<"R", "a", "p", "i", "d", "2", ".", "m", "p", "3">>

\* audio files of one topic directory, in os.listdir order; the index, when
\* present, lists the same files in the same order
ListingChoices ==
    {<<LentMp3>>, <<LentMp3, RapidMp3>>, <<RapidMp3, Rapid2Mp3>>}

\* a topic directory: whether it holds a .txt transcript, its audio files,
\* and whether os.listdir works on it
TopicChoices ==
    [transcript : {TRUE}, files : ListingChoices, listable : {TRUE}]
        \cup {[transcript |-> FALSE, files |-> <<LentMp3>>, listable |-> TRUE],
              [transcript |-> TRUE, files |-> <<>>, listable |-> TRUE],
              [transcript |-> TRUE, files |-> <<LentMp3>>, listable |-> FALSE]}

\* the directories of the topics after the second: a transcript and one
\* slow audio file
LaterTopicChoices ==
    {[transcript |-> TRUE, files |-> <<LentMp3>>, listable |-> TRUE]}

Topics == 1..NumTopics

\* the corpora: any directory for the first two topics
Corpora ==
    {c \in [Topics -> TopicChoices] :
        \A t \in Topics : t > 2 => c[t] \in LaterTopicChoices}

\* level directory and topic directory of the t-th topic in discovery order
LevelOf(t) == IF t = 1 THEN <<"a", "1">> ELSE <<"b", "1">>

TopicName(t) ==
    IF t = 1 THEN <<"e", "l", "-", "b", "a", "r">>
    ELSE IF t = 2 THEN <<"t", "r", "e", "n", " ", "r", "a", "p", "i", "d">>
    ELSE <<"s", "o", "l">> \o [i \in 1..(t - 3) |-> "x"]

\* str.lower() and re.IGNORECASE on the characters that occur in paths and
\* transcripts
LowerChar(c) ==
    IF c = "R" THEN "r"
    ELSE IF c = "A" THEN "a"
    ELSE IF c = "S" THEN "s"
    ELSE IF c = "T" THEN "t"
    ELSE c

\* sub in s.lower()
ContainsLower(s, sub) ==
    \E i \in 1..(Len(s) - Len(sub) + 1) :
        \A k \in 1..Len(sub) : LowerChar(s[i + k - 1]) = sub[k]

RapidWord == <<"r", "a", "p", "i", "d">>

\* an audio file: the topic it lies in and its file name
Audio(t, f) == [t |-> t, f |-> f]

\* audio_path as the index-driven walk sees it (audio_data["path"])
PathText(a) == LevelOf(a.t) \o <<"/">> \o TopicName(a.t) \o <<"/">> \o a.f

\* "rapid" in audio_path.lower() (line 479) / "rapid" in f.lower() (line 568)
IsRapidPath(a) == ContainsLower(PathText(a), RapidWord)

IsRapidName(f) == ContainsLower(f, RapidWord)

\* characters matched by \w
WordChars ==
    {"a", "b", "c", "d", "e", "h", "i", "k", "l", "m", "n", "o", "p", "r", "s",
     "t", "u", "w", "x", "1", "2", "_"}

\* re.sub(r'[^\w]', '_', topic)
Sanitize(topic) ==
    [i \in 1..Len(topic) |-> IF topic[i] \in WordChars THEN topic[i] ELSE "_"]

\* audio_files of a topic in _process_from_master_data (lines 461-503)
AudioFilesIndex(t, files) ==
    LET rapid_files == SelectSeq(files, LAMBDA f : IsRapidPath(Audio(t, f)))
        other_files == SelectSeq(files, LAMBDA f : ~IsRapidPath(Audio(t, f)))
    IN  IF rapid_files # <<>> THEN rapid_files ELSE other_files

\* audio_files of a topic in _process_directory_scan (lines 567-571)
AudioFilesScan(files) ==
    LET rapid_files == SelectSeq(files, IsRapidName)
        other_files == SelectSeq(files, LAMBDA f : ~IsRapidName(f))
    IN  IF rapid_files # <<>> THEN rapid_files ELSE other_files

HasTranscript_always(topic) == TRUE

\* lines 449-458, 558-562: a transcript is found for the topic
HasTranscript(topic) == topic.transcript

\* the audio files the walker iterates over for one topic, as a sequence of
\* work items: all of audio_files in the index-driven walk (line 509), only
\* audio_files[0] in the directory scan (line 578); none when the topic has
\* no transcript (lines 456-458, 560-562)
Candidates(m, t, topic) ==
    IF ~HasTranscript(topic) THEN <<>>
    ELSE IF m = "index"
         THEN LET audio_files == AudioFilesIndex(t, topic.files)
              IN  [i \in 1..Len(audio_files) |-> Audio(t, audio_files[i])]
         ELSE LET audio_files == AudioFilesScan(topic.files)
              IN  IF audio_files = <<>> THEN <<>>
                  ELSE <<Audio(t, audio_files[1])>>

\* words of the alignment response the service returns in this model: two
\* sentences followed by the appended marker phrase
Response ==
    <<WordData(Bon, 0, 1), WordData(DiaDot, 1, 2), WordData(Adeu, 2, 3),
      WordData(Generalitat, 3, 4), WordData(de, 4, 5),
      WordData(Catalunya, 5, 6)>>

\* number of the level directory of topic t
LevelNo(t) == IF t = 1 THEN 1 ELSE 2

\* master_data.json: whether the file is there, whether it has the "levels"
\* key, and per level the shape of its entry: "topics" (a dict with a list
\* under "topics"), "list" (a list of topics) or "other" (a dict without a
\* "topics" list)
NoMasterData ==
    [present |-> FALSE, levels |-> FALSE, shape |-> <<"topics", "topics">>]

MasterDataChoices ==
    {NoMasterData,
     [present |-> TRUE, levels |-> FALSE, shape |-> <<"topics", "topics">>],
     [present |-> TRUE, levels |-> TRUE, shape |-> <<"topics", "list">>],
     [present |-> TRUE, levels |-> TRUE, shape |-> <<"topics", "other">>]}

\* lines 353-369, 395-397: the index-driven walk is taken when the file is
\* there and has the "levels" key, the directory scan otherwise
DiscoveryMode(md) == IF md.present /\ md.levels THEN "index" ELSE "scan"

\* lines 405-413: topics_list is taken from the level entry of topic t
LevelRead(md, t) == md.shape[LevelNo(t)] \in {"topics", "list"}

\* os.listdir(topic_dir) raises when the walker looks for the transcript
\* of topic t (lines 451, 558); the index holds no transcript for such a
\* topic, and a topic of a skipped level is not looked at
ListingRaises(md, m, t, topic) ==
    ~topic.listable /\ (m = "scan" \/ LevelRead(md, t))

\* the work items of topic t: none in the index-driven walk when the entry
\* of its level is skipped (lines 411-413), none when its directory cannot
\* be listed
WorkItems(md, m, t, topic) ==
    IF m = "index" /\ ~LevelRead(md, t) THEN <<>>
    ELSE IF ~topic.listable THEN <<>>
    ELSE Candidates(m, t, topic)

\* segmenter_main.py lines 130-140: the exit status for a returned count
ExitStatus(count) == IF count > 0 THEN 0 ELSE 1

\* what replicate.run returned (lines 111-119): its type, the keys of a
\* dict, whether its word list is a list, and the word records
DictResponse ==
    [type |-> "dict", keys |-> {"wordstamps"}, is_list |-> TRUE,
     words |-> Response]

ListResponse ==
    [type |-> "list", keys |-> {}, is_list |-> TRUE, words |-> Response]

\* {"wordstamps": {...}}: the word stamps are an object with a length, not a
\* list (null word stamps raise at line 124, which AlignRaise covers)
ObjectStamps ==
    [type |-> "dict", keys |-> {"wordstamps"}, is_list |-> FALSE,
     words |-> <<>>]

\* {"error": ...}
ErrorDict ==
    [type |-> "dict", keys |-> {"error"}, is_list |-> FALSE, words |-> <<>>]

TextResponse ==
    [type |-> "str", keys |-> {}, is_list |-> FALSE, words |-> <<>>]

NoResponse ==
    [type |-> "none", keys |-> {}, is_list |-> FALSE, words |-> <<>>]

Responses == {DictResponse, ListResponse, ObjectStamps, ErrorDict, TextResponse}

\* responses of a service that works as documented
UsualResponses == {DictResponse, ListResponse}

Accepted_any(alignment_response) == TRUE

\* lines 122, 128: a dict with "wordstamps", or a list
Accepted(alignment_response) ==
    \/ alignment_response.type = "dict" /\ "wordstamps" \in alignment_response.keys
    \/ alignment_response.type = "list"

NoResult == [is_list |-> TRUE, items |-> <<>>]

\* lines 122-130: alignment_result taken from the response
ResultOf(alignment_response) ==
    [is_list |-> alignment_response.is_list, items |-> alignment_response.words]

\* ------------------------------------------------------- clean_transcript
TextTag == <<"T", "e", "x", "t", ":">>
AuthorTag == <<"A", "u", "t", "h", "o", "r", ":">>
SourceTag == <<"S", "o", "u", "r", "c", "e", ":">>

\* what raw transcripts are put together from
Pieces ==
    {<<"a">>, <<" ">>, <<"\n">>, <<"\t">>, TextTag,
     <<"a", "u", "t", "h", "o", "r", ":">>, SourceTag}

\* tag stands at position j of s
MatchesTag(s, j, tag, ignorecase) ==
    /\ j + Len(tag) - 1 <= Len(s)
    /\ \A k \in 1..Len(tag) :
           IF ignorecase THEN LowerChar(s[j + k - 1]) = LowerChar(tag[k])
           ELSE s[j + k - 1] = tag[k]

\* ".*$" without re.MULTILINE: no newline up to the end of the string, or
\* up to a newline that is its last character
NoNewlineBeforeEnd(r) == \A k \in 1..(Len(r) - 1) : r[k] # "\n"

\* the positions of s at which "\n" + (\s* when spaces) + tag + ".*$"
\* matches
MetaStarts(s, tag, spaces, ignorecase) ==
    {i \in 1..Len(s) :
        /\ s[i] = "\n"
        /\ \E j \in (i + 1)..Len(s) :
               /\ spaces \/ j = i + 1
               /\ \A k \in (i + 1)..(j - 1) : s[k] \in Whitespace
               /\ MatchesTag(s, j, tag, ignorecase)
               /\ NoNewlineBeforeEnd(SubSeq(s, j + Len(tag), Len(s)))}

\* re.sub of that pattern by '' (lines 52-56): the leftmost match is cut;
\* it reaches to the end of the string, or to its final newline
RemoveMeta(s, tag, spaces, ignorecase) ==
    LET starts == MetaStarts(s, tag, spaces, ignorecase)
    IN  IF starts = {} THEN s
        ELSE LET i == CHOOSE x \in starts : \A y \in starts : x <= y
             IN  SubSeq(s, 1, i - 1)
                     \o (IF Last(s) = "\n" /\ i < Len(s) THEN <<"\n">> ELSE <<>>)

\* transcript.replace('\n', ' ') (line 59)
ReplaceNewlines(s) == [i \in 1..Len(s) |-> IF s[i] = "\n" THEN " " ELSE s[i]]

Collapse_keep(s) == s

\* re.sub(r'\s+', ' ', transcript) (line 62)
RECURSIVE Collapse(_)
Collapse(s) ==
    IF s = <<>> THEN <<>>
    ELSE IF Head(s) \in Whitespace THEN <<" ">> \o Collapse(LStrip(Tail(s)))
    ELSE <<Head(s)>> \o Collapse(Tail(s))

\* clean_transcript(transcript) (lines 44-64)
clean_transcript(transcript) ==
    Strip(Collapse(ReplaceNewlines(
        RemoveMeta(RemoveMeta(RemoveMeta(transcript, TextTag, FALSE, FALSE),
                              AuthorTag, TRUE, TRUE),
                   SourceTag, TRUE, TRUE))))

\* ------------------------------------------------- the marker round trip
\* words a cleaned transcript is made of
TripWords == {Hola, DiaDot, Generalitat, de, Catalunya}

\* the response of a service that returns exactly the whitespace-separated
\* words of alignment_text = clean_text + " Generalitat de Catalunya" (line
\* 101), one second each
Aligned(words) ==
    LET augmented == words \o <<Generalitat, de, Catalunya>>
    IN  [i \in 1..Len(augmented) |-> WordData(augmented[i], i - 1, i)]

\* ------------------------------------------------------------ the scraper
\* the first levels of level_urls, in order, and the topics of a level
LevelCodes == <<"b1", "b2">>

LevelTopics == {1, 2}

\* process_level returned None
NoStats == [total |-> -1, completed |-> -1, skipped |-> -1]

\* progress.json as _initialize_progress_file makes it
NewProgress ==
    [completed_levels |-> <<>>,
     in_progress_levels |-> {},
     stats |-> [total_topics |-> 0, completed_topics |-> 0,
                skipped_topics |-> 0]]

\* ProgressManager.update_stats(stats_data)
update_stats(pd, stats_data) ==
    [pd EXCEPT !.stats =
        [total_topics |-> @.total_topics + stats_data.total,
         completed_topics |-> @.completed_topics + stats_data.completed,
         skipped_topics |-> @.skipped_topics + stats_data.skipped]]

\* ProgressManager.update_level_status(level_code, completed, in_progress)
update_level_status(pd, level_code, completed, in_progress) ==
    IF completed
    THEN [pd EXCEPT !.completed_levels =
                        IF level_code \in Range(@) THEN @
                        ELSE Append(@, level_code),
                    !.in_progress_levels = @ \ {level_code}]
    ELSE IF in_progress
         THEN [pd EXCEPT !.in_progress_levels = @ \cup {level_code}]
         ELSE pd

\* the counts of process_level for a level of which the topics in marked
\* have a .completed file and the topics in got are completed in this call
\* (a skipped topic counts as skipped and as completed, lines 424-426)
LevelStatsOf(marked, got) ==
    [total |-> Cardinality(LevelTopics),
     completed |-> Cardinality(marked) + Cardinality(got),
     skipped |-> Cardinality(marked)]

\* --------------------------------------------------- specific-file mode
\* a value that was not given (None) is the empty text
Mp3Path == <<"a", ".", "m", "p", "3">>
TxtPath == <<"t", ".", "t", "x", "t">>
Unknown == <<"u", "n", "k", "n", "o", "w", "n">>

\* " Generalitat de Catalunya" (line 101)
MarkerSuffix ==
    <<" ", "G", "e", "n", "e", "r", "a", "l", "i", "t", "a", "t", " ", "d",
      "e", " ", "C", "a", "t", "a", "l", "u", "n", "y", "a">>

FileTexts ==
    {<<"a">>, <<"a", " ", "a">>, <<"a", "\n", "T", "e", "x", "t", ":", "a">>}

\* the command lines with --specific-file
ArgsChoices ==
    [specific_file : {Mp3Path},
     transcript_file : {<<>>, TxtPath},
     level : {<<>>, <<"a", "1">>, <<"b", "1">>},
     topic : {<<>>, <<"s", "o", "l">>, <<"e", "l", "-", "b", "a", "r">>}]

NoArgs ==
    [specific_file |-> <<>>, transcript_file |-> <<>>, level |-> <<>>,
     topic |-> <<>>]

DiskChoices ==
    {fs \cup au : fs \in {{}} \cup {{[path |-> TxtPath, text |-> c]} :
                                      c \in FileTexts},
                  au \in {{}, {[path |-> Mp3Path, text |-> <<>>]}}}

\* os.path.exists(path)
Exists(fs, path) == \E f \in fs : f.path = path

\* f.read() of the file at path
Read(fs, path) == (CHOOSE f \in fs : f.path = path).text

\* the parameters of segment_audio_file after self, in order, and their
\* defaults
ParamNames ==
    <<"audio_path", "transcript_text", "transcript_path", "level",
      "topic_name">>

Defaults ==
    [audio_path |-> <<>>, transcript_text |-> <<>>, transcript_path |-> <<>>,
     level |-> Unknown, topic_name |-> Unknown]

NoParams == Defaults

\* a call with positional arguments only: the i-th argument goes to the
\* i-th parameter, the other parameters keep their defaults
BindPositional(positional) ==
    [n \in Range(ParamNames) |->
        LET i == CHOOSE j \in 1..Len(ParamNames) : ParamNames[j] = n
        IN  IF i <= Len(positional) THEN positional[i] ELSE Defaults[n]]

\* ------------------------------------------------------------------- state
VARIABLES
    corpus,           \* topic -> its directory (transcript, audio files)
    mode,             \* how the running process discovers: "index" or "scan"
    alignment_files,  \* audio files whose <audio_path>_alignment.json exists
    clips,            \* file names present in audio_output_dir
    manifest,         \* rows of segments.csv; <<>> while the file is absent
    pc,               \* where the running process is; "off": no process
    limit_to_one,     \* argument of process_directory in this run
    pos,              \* walker position: topic t, index v into its audio_files
    cur,              \* audio file segment_audio_file is working on
    alignment_response, \* what replicate.run returned, until it is dumped
    api_calls,        \* calls of replicate.run for the file in work
    alignment_result, \* word records extracted from the response
    sentences,        \* sentences list of _extract_sentences_ffmpeg so far
    success,          \* return value of segment_audio_file
    processed_count,  \* counter of the walker
    returned,         \* value process_directory returned; -1: none yet
    run,              \* number of process starts so far
    called,           \* audio files passed to segment_audio_file in this run
    skipped,          \* audio files skipped in this run for their marker
    failed,           \* audio files for which it returned False in this run
    succeeded,        \* audio files for which it returned True in this run
    interrupted,      \* audio files that were in work (after the alignment
                      \* call returned) when the last process died
    rows_saved,       \* audio files whose manifest rows were appended
    prev,             \* how the last run ended: clean when it was a complete
                      \* run with limit_to_one=False and without failed
                      \* item; the manifest it left
    cut_failed,       \* clip file names for which _extract_audio_segment
                      \* returned False, for the file in work
    master_data,      \* master_data.json in the data directory
    data_dir_exists,  \* whether the data directory is there
    faults,           \* failures of the environment so far
    seg_words,        \* SpecSeg: input of _extract_sentences_ffmpeg
    word_dur,         \* SpecSeg: duration of each word
    out,              \* SpecSeg: the sentences it returned
    seg_pc,           \* SpecSeg: "input" or "done"
    raw,              \* SpecClean: the pieces of the raw transcript
    cleaned,          \* SpecClean: what clean_transcript returned
    clean_pc,         \* SpecClean: "input" or "done"
    args,             \* SpecFile: the command line of segmenter_main.py
    disk,             \* SpecFile: the files on disk, each a path and a text
    params,           \* SpecFile: the parameters of segment_audio_file as bound
    alignment_text,   \* SpecFile: the text sent for alignment
    filename,         \* SpecFile: the name of the first clip
    exit_code,        \* SpecFile: what main returned
    main_pc,          \* SpecFile: "args", "call", "aligned" or "done"
    clean_words,      \* SpecTrip: the words of the cleaned transcript
    trip_out,         \* SpecTrip: the sentences made from the response
    trip_pc,          \* SpecTrip: "input" or "done"
    progress_data,    \* SpecScraper: progress.json (as kept by ProgressManager)
    completed_markers, \* SpecScraper: the topics with a .completed file
    level_stats,      \* SpecScraper: what process_level returned last
    level_index,      \* SpecScraper: position of run in level_urls
    scrape_run,       \* SpecScraper: number of runs of the scraper
    scrape_pc         \* SpecScraper: "run" inside GencatScraper.run

batchVars ==
    <<corpus, mode, alignment_files, clips, manifest, pc, limit_to_one, pos,
      cur, alignment_response, api_calls, alignment_result, sentences,
      success, processed_count, returned, run, called, skipped, failed,
      succeeded, interrupted, rows_saved, prev, faults, cut_failed,
      master_data, data_dir_exists>>

segVars == <<seg_words, word_dur, out, seg_pc>>

cleanVars == <<raw, cleaned, clean_pc>>

fileVars ==
    <<args, disk, params, alignment_text, filename, exit_code, main_pc>>

tripVars == <<clean_words, trip_out, trip_pc>>

scrapeVars == <<progress_data, completed_markers, level_stats, level_index, scrape_run, scrape_pc>>

\* the variables of the specifications of single functions
pureVars == <<segVars, cleanVars, fileVars, tripVars, scrapeVars>>

vars == <<batchVars, pureVars>>

\* ----------------------------------------------------------------- batch
NoAudio == [t |-> 0, f |-> <<>>]

\* the header row written by __init__ (line 37)
Header ==
    <<<<"f", "i", "l", "e", "n", "a", "m", "e">>,
      <<"t", "r", "a", "n", "s", "c", "r", "i", "p", "t">>>>

InitCsv_truncate(csv) == <<Header>>

\* lines 34-37: segments.csv after __init__, given its content before
InitCsv(csv) == IF csv = <<>> THEN <<Header>> ELSE csv

\* the rows writer.writerow appends for a sentences list (lines 332-336)
Rows(ss) == [i \in 1..Len(ss) |-> <<ss[i].filename, ss[i].transcript>>]

IsDone_never(a, files) == FALSE

\* os.path.exists(audio_path + "_alignment.json") (lines 511-513, 582-584)
IsDone(a, files) == a \in files

AfterItem_abort(m, p, ok) ==
    IF ok THEN [t |-> p.t + 1, v |-> 1] ELSE [t |-> NumTopics + 1, v |-> 1]

\* where the walker goes after segment_audio_file returned ok for the item at
\* p: the index-driven walk leaves the topic after a success (line 538) and
\* tries the next audio file after a failure; the scan has one file per topic
AfterItem(m, p, ok) ==
    IF m = "index" /\ ~ok
    THEN [t |-> p.t, v |-> p.v + 1]
    ELSE [t |-> p.t + 1, v |-> 1]

StopsRun_never(ok, limit, count) == FALSE

\* lines 526-533, 596-603: after a success the walker returns when
\* limit_to_one is set and the count, already incremented, is at least 1
StopsRun(ok, limit, count) == ok /\ limit /\ count >= 1

DumpTo_nowhere(files, audio_path) == files

\* lines 136-140: <audio_path>_alignment.json is written
DumpTo(files, audio_path) == files \cup {audio_path}

\* work items of the topic the walker stands at
Here ==
    IF pos.t \in Topics
    THEN WorkItems(master_data, mode, pos.t, corpus[pos.t])
    ELSE <<>>

FileInitFixed ==
    /\ args = NoArgs
    /\ disk = {}
    /\ params = NoParams
    /\ alignment_text = <<>>
    /\ filename = <<>>
    /\ exit_code = -1
    /\ main_pc = "off"

TripInitFixed ==
    /\ clean_words = <<>>
    /\ trip_out = <<>>
    /\ trip_pc = "off"

ScrapeInitFixed ==
    /\ progress_data = NewProgress
    /\ completed_markers = {}
    /\ level_stats = NoStats
    /\ level_index = 1
    /\ scrape_run = 0
    /\ scrape_pc = "off"

CleanInitFixed ==
    /\ raw = <<>>
    /\ cleaned = <<>>
    /\ clean_pc = "off"

SegInitFixed ==
    /\ seg_words = <<>>
    /\ word_dur = 1
    /\ out = <<>>
    /\ seg_pc = "off"

Init ==
    /\ mode = "scan"
    /\ alignment_files = {}
    /\ clips = {}
    /\ manifest = <<>>
    /\ pc = "off"
    /\ limit_to_one = FALSE
    /\ pos = [t |-> 1, v |-> 1]
    /\ cur = NoAudio
    /\ alignment_response = NoResponse
    /\ api_calls = 0
    /\ alignment_result = NoResult
    /\ sentences = <<>>
    /\ success = FALSE
    /\ processed_count = 0
    /\ returned = -1
    /\ run = 0
    /\ called = <<>>
    /\ skipped = {}
    /\ failed = {}
    /\ succeeded = {}
    /\ interrupted = {}
    /\ rows_saved = {}
    /\ prev = [clean |-> FALSE, manifest |-> <<>>]
    /\ faults = 0
    /\ \/ /\ data_dir_exists = TRUE
          /\ corpus \in Corpora
          /\ master_data \in MasterDataChoices
       \/ /\ data_dir_exists = FALSE
          /\ corpus = [t \in Topics |-> [transcript |-> FALSE, files |-> <<>>,
                                         listable |-> FALSE]]
          /\ master_data = NoMasterData
    /\ cut_failed = {}
    /\ SegInitFixed
    /\ ScrapeInitFixed
    /\ TripInitFixed
    /\ FileInitFixed
    /\ CleanInitFixed

\* main(): GencatSegmenter(...) then process_directory(limit_to_one)
\* (segmenter_main.py lines 81, 128; __init__ lines 33-37); without data
\* directory there is no master_data.json and os.listdir(self.data_dir)
\* raises (line 548)
StartProcess ==
    /\ pc = "off"
    /\ run < MaxRuns
    /\ run' = run + 1
    /\ manifest' = InitCsv(manifest)
    /\ \E lim \in BOOLEAN : limit_to_one' = lim
    /\ mode' = DiscoveryMode(master_data)
    /\ pc' = IF data_dir_exists THEN "walk" ELSE "raised"
    /\ pos' = [t |-> 1, v |-> 1]
    /\ processed_count' = 0
    /\ returned' = -1
    /\ called' = <<>>
    /\ skipped' = {}
    /\ failed' = {}
    /\ succeeded' = {}
    /\ cur' = NoAudio
    /\ interrupted' = {}
    /\ UNCHANGED <<corpus, alignment_files, clips, alignment_result,
                   sentences, success, rows_saved, prev>>
    /\ UNCHANGED faults
    /\ UNCHANGED <<alignment_response, api_calls>>
    /\ UNCHANGED cut_failed
    /\ UNCHANGED master_data
    /\ UNCHANGED data_dir_exists
    /\ UNCHANGED pureVars

\* a topic without transcript or without audio files (lines 456-458,
\* 505-507, 560-562, 573-575), or whose audio_files are exhausted
NextTopic ==
    /\ pc = "walk"
    /\ pos.t \in Topics
    /\ ~ListingRaises(master_data, mode, pos.t, corpus[pos.t])
    /\ pos.v > Len(Here)
    /\ pos' = [t |-> pos.t + 1, v |-> 1]
    /\ UNCHANGED <<corpus, mode, alignment_files, clips, manifest, pc,
                   limit_to_one, cur, alignment_result, sentences, success,
                   processed_count, returned, run, called, skipped, failed,
                   succeeded, interrupted, rows_saved, prev>>
    /\ UNCHANGED faults
    /\ UNCHANGED <<alignment_response, api_calls>>
    /\ UNCHANGED cut_failed
    /\ UNCHANGED master_data
    /\ UNCHANGED data_dir_exists
    /\ UNCHANGED pureVars

\* lines 451, 558: os.listdir(topic_dir) raises; the walk is left
ListTopicError ==
    /\ pc = "walk"
    /\ pos.t \in Topics
    /\ ListingRaises(master_data, mode, pos.t, corpus[pos.t])
    /\ pc' = "raised"
    /\ UNCHANGED <<corpus, mode, alignment_files, clips, manifest,
                   limit_to_one, pos, cur, alignment_response, api_calls,
                   alignment_result, sentences, success, processed_count,
                   returned, run, called, skipped, failed, succeeded,
                   interrupted, rows_saved, prev, faults, cut_failed,
                   master_data, data_dir_exists>>
    /\ UNCHANGED pureVars

\* lines 370-374: process_directory catches the exception and returns 0
ProcessError ==
    /\ pc = "raised"
    /\ pc' = "off"
    /\ returned' = 0
    /\ prev' = [clean |-> FALSE, manifest |-> manifest]
    /\ UNCHANGED <<corpus, mode, alignment_files, clips, manifest,
                   limit_to_one, pos, cur, alignment_response, api_calls,
                   alignment_result, sentences, success, processed_count,
                   run, called, skipped, failed, succeeded, interrupted,
                   rows_saved, faults, cut_failed, master_data,
                   data_dir_exists>>
    /\ UNCHANGED pureVars

\* lines 511-515, 582-586: the marker exists, the file is skipped
SkipDone ==
    /\ pc = "walk"
    /\ pos.t \in Topics
    /\ LET audio_files == Here
       IN  /\ pos.v <= Len(audio_files)
           /\ IsDone(audio_files[pos.v], alignment_files)
           /\ skipped' = skipped \cup {audio_files[pos.v]}
    /\ pos' = IF mode = "index"
              THEN [t |-> pos.t, v |-> pos.v + 1]
              ELSE [t |-> pos.t + 1, v |-> 1]
    /\ UNCHANGED <<corpus, mode, alignment_files, clips, manifest, pc,
                   limit_to_one, cur, alignment_result, sentences, success,
                   processed_count, returned, run, called, failed, succeeded,
                   interrupted, rows_saved, prev>>
    /\ UNCHANGED faults
    /\ UNCHANGED <<alignment_response, api_calls>>
    /\ UNCHANGED cut_failed
    /\ UNCHANGED master_data
    /\ UNCHANGED data_dir_exists
    /\ UNCHANGED pureVars

\* lines 518-524, 589-594: segment_audio_file is called for the file
CallSegment ==
    /\ pc = "walk"
    /\ pos.t \in Topics
    /\ LET audio_files == Here
       IN  /\ pos.v <= Len(audio_files)
           /\ ~IsDone(audio_files[pos.v], alignment_files)
           /\ cur' = audio_files[pos.v]
           /\ called' = Append(called, audio_files[pos.v])
    /\ pc' = "align"
    /\ api_calls' = 0
    /\ UNCHANGED alignment_response
    /\ UNCHANGED <<corpus, mode, alignment_files, clips, manifest,
                   limit_to_one, pos, alignment_result, sentences, success,
                   processed_count, returned, run, skipped, failed, succeeded,
                   interrupted, rows_saved, prev>>
    /\ UNCHANGED faults
    /\ UNCHANGED cut_failed
    /\ UNCHANGED master_data
    /\ UNCHANGED data_dir_exists
    /\ UNCHANGED pureVars

\* lines 111-119, 144-146: replicate.run raises; segment_audio_file
\* returns False
AlignRaise ==
    /\ pc = "align"
    /\ api_calls' = api_calls + 1
    /\ success' = FALSE
    /\ pc' = "ret"
    /\ UNCHANGED <<corpus, mode, alignment_files, clips, manifest,
                   limit_to_one, pos, cur, alignment_response,
                   alignment_result, sentences, processed_count, returned,
                   run, called, skipped, failed, succeeded, interrupted,
                   rows_saved, prev>>
    /\ faults < MaxFaults
    /\ faults' = faults + 1
    /\ UNCHANGED cut_failed
    /\ UNCHANGED master_data
    /\ UNCHANGED data_dir_exists
    /\ UNCHANGED pureVars

\* lines 111-133: the response is neither a dict with "wordstamps" nor a
\* list; segment_audio_file returns False
AlignBadShape ==
    /\ pc = "align"
    /\ \E r \in Responses :
           /\ ~Accepted(r)
           /\ alignment_response' = r
    /\ api_calls' = api_calls + 1
    /\ success' = FALSE
    /\ pc' = "ret"
    /\ UNCHANGED <<corpus, mode, alignment_files, clips, manifest,
                   limit_to_one, pos, cur, alignment_result, sentences,
                   processed_count, returned, run, called, skipped, failed,
                   succeeded, interrupted, rows_saved, prev>>
    /\ faults < MaxFaults
    /\ faults' = faults + 1
    /\ UNCHANGED cut_failed
    /\ UNCHANGED master_data
    /\ UNCHANGED data_dir_exists
    /\ UNCHANGED pureVars

\* lines 111-130: the response is accepted, alignment_result is set
AlignReturn ==
    /\ pc = "align"
    /\ \E r \in Responses :
           /\ Accepted(r)
           /\ r \notin UsualResponses => faults < MaxFaults
           /\ faults' = IF r \in UsualResponses THEN faults ELSE faults + 1
           /\ alignment_response' = r
           /\ alignment_result' = ResultOf(r)
    /\ api_calls' = api_calls + 1
    /\ pc' = "dump"
    /\ UNCHANGED <<corpus, mode, alignment_files, clips, manifest,
                   limit_to_one, pos, cur, sentences, success,
                   processed_count, returned, run, called, skipped, failed,
                   succeeded, interrupted, rows_saved, prev>>
    /\ UNCHANGED cut_failed
    /\ UNCHANGED master_data
    /\ UNCHANGED data_dir_exists
    /\ UNCHANGED pureVars

\* lines 135-140: the response is written to <audio_path>_alignment.json
DumpAlignment ==
    /\ pc = "dump"
    /\ alignment_files' = DumpTo(alignment_files, cur)
    /\ sentences' = <<>>
    /\ alignment_response' = NoResponse
    /\ UNCHANGED api_calls
    /\ pc' = "extract"
    /\ UNCHANGED <<corpus, mode, clips, manifest, limit_to_one, pos, cur,
                   alignment_result, success, processed_count, returned, run,
                   called, skipped, failed, succeeded, interrupted,
                   rows_saved, prev>>
    /\ UNCHANGED faults
    /\ UNCHANGED cut_failed
    /\ UNCHANGED master_data
    /\ UNCHANGED data_dir_exists
    /\ UNCHANGED pureVars

\* lines 139-146: open(alignment_file, 'w') has made the file and json.dump
\* raises: False is returned and the file stays (an exception before the
\* file is made ends like AlignRaise)
DumpRaise ==
    /\ pc = "dump"
    /\ faults < MaxFaults
    /\ faults' = faults + 1
    /\ alignment_files' = DumpTo(alignment_files, cur)
    /\ success' = FALSE
    /\ pc' = "ret"
    /\ UNCHANGED <<corpus, mode, clips, manifest, limit_to_one, pos, cur,
                   alignment_response, api_calls, alignment_result,
                   sentences, processed_count, returned, run, called,
                   skipped, failed, succeeded, interrupted, rows_saved,
                   prev>>
    /\ UNCHANGED cut_failed
    /\ UNCHANGED master_data
    /\ UNCHANGED data_dir_exists
    /\ UNCHANGED pureVars

\* what _extract_sentences_ffmpeg will return for the file in work (lines
\* 173-175: an empty list when alignment_result is not a list)
AllSentences ==
    IF ~alignment_result.is_list THEN <<>>
    ELSE extract_sentences_ffmpeg(alignment_result.items, LevelOf(cur.t),
                                  Sanitize(TopicName(cur.t)))

\* lines 217-235, 258-276, 286-325: ffmpeg is run for the next sentence; it
\* writes the clip when it exits with 0, else _extract_audio_segment returns
\* False; the caller drops the return value and appends the sentence
CutClip ==
    /\ pc = "extract"
    /\ Len(sentences) < Len(AllSentences)
    /\ LET s == AllSentences[Len(sentences) + 1]
       IN  /\ \E ok \in BOOLEAN :
                  /\ ~ok => faults < MaxFaults
                  /\ faults' = IF ok THEN faults ELSE faults + 1
                  /\ clips' = IF ok THEN clips \cup {s.filename} ELSE clips
                  /\ cut_failed' = IF ok THEN cut_failed
                                   ELSE cut_failed \cup {s.filename}
           /\ sentences' = Append(sentences, s)
    /\ UNCHANGED <<corpus, mode, alignment_files, manifest, pc, limit_to_one,
                   pos, cur, alignment_result, success, processed_count,
                   returned, run, called, skipped, failed, succeeded,
                   interrupted, rows_saved, prev>>
    /\ UNCHANGED <<alignment_response, api_calls>>
    /\ UNCHANGED master_data
    /\ UNCHANGED data_dir_exists
    /\ UNCHANGED pureVars

\* lines 282-284: a word record after the first sentence is malformed (not a
\* mapping, or a time that float() rejects): the exception is caught,
\* _extract_sentences_ffmpeg returns [] and the clips cut so far stay
ExtractRaise ==
    /\ pc = "extract"
    /\ alignment_result.is_list
    /\ Len(sentences) >= 1
    /\ Len(sentences) < Len(AllSentences)
    /\ faults < MaxFaults
    /\ faults' = faults + 1
    /\ sentences' = <<>>
    /\ pc' = "csv"
    /\ UNCHANGED <<corpus, mode, alignment_files, clips, manifest,
                   limit_to_one, pos, cur, alignment_result, success,
                   processed_count, returned, run, called, skipped, failed,
                   succeeded, interrupted, rows_saved, prev>>
    /\ UNCHANGED <<alignment_response, api_calls>>
    /\ UNCHANGED cut_failed
    /\ UNCHANGED master_data
    /\ UNCHANGED data_dir_exists
    /\ UNCHANGED pureVars

\* line 280: _extract_sentences_ffmpeg returns
ExtractReturn ==
    /\ pc = "extract"
    /\ Len(sentences) = Len(AllSentences)
    /\ pc' = "csv"
    /\ UNCHANGED <<corpus, mode, alignment_files, clips, manifest,
                   limit_to_one, pos, cur, alignment_result, sentences,
                   success, processed_count, returned, run, called, skipped,
                   failed, succeeded, interrupted, rows_saved, prev>>
    /\ UNCHANGED faults
    /\ UNCHANGED <<alignment_response, api_calls>>
    /\ UNCHANGED cut_failed
    /\ UNCHANGED master_data
    /\ UNCHANGED data_dir_exists
    /\ UNCHANGED pureVars

\* lines 153-156, 327-341: the rows are appended (or the append raises and
\* _save_segments_to_csv returns False, which the caller ignores); then
\* segment_audio_file returns True
SaveCsv ==
    /\ pc = "csv"
    /\ \E ok \in BOOLEAN :
           /\ ~ok => faults < MaxFaults
           /\ faults' = IF ok THEN faults ELSE faults + 1
           /\ manifest' = IF ok THEN manifest \o Rows(sentences) ELSE manifest
           /\ rows_saved' = IF ok THEN rows_saved \cup {cur} ELSE rows_saved
    /\ success' = TRUE
    /\ pc' = "ret"
    /\ UNCHANGED <<corpus, mode, alignment_files, clips, limit_to_one, pos,
                   cur, alignment_result, sentences, processed_count,
                   returned, run, called, skipped, failed, succeeded,
                   interrupted, prev>>
    /\ UNCHANGED <<alignment_response, api_calls>>
    /\ UNCHANGED cut_failed
    /\ UNCHANGED master_data
    /\ UNCHANGED data_dir_exists
    /\ UNCHANGED pureVars

\* lines 526-539, 596-605: the walker looks at the result; the locals of
\* segment_audio_file are gone
ItemReturn ==
    /\ pc = "ret"
    /\ processed_count' = IF success THEN processed_count + 1 ELSE processed_count
    /\ succeeded' = IF success THEN succeeded \cup {cur} ELSE succeeded
    /\ failed' = IF success THEN failed ELSE failed \cup {cur}
    /\ IF StopsRun(success, limit_to_one, processed_count + 1)
       THEN /\ pc' = "off"
            /\ returned' = processed_count + 1
            /\ prev' = [clean |-> FALSE, manifest |-> manifest]
            /\ pos' = pos
       ELSE /\ pc' = "walk"
            /\ pos' = AfterItem(mode, pos, success)
            /\ UNCHANGED <<returned, prev>>
    /\ cur' = NoAudio
    /\ alignment_response' = NoResponse
    /\ api_calls' = 0
    /\ alignment_result' = NoResult
    /\ sentences' = <<>>
    /\ success' = FALSE
    /\ UNCHANGED <<corpus, mode, alignment_files, clips, manifest,
                   limit_to_one, run, called, skipped, interrupted,
                   rows_saved>>
    /\ UNCHANGED faults
    /\ cut_failed' = {}
    /\ UNCHANGED master_data
    /\ UNCHANGED data_dir_exists
    /\ UNCHANGED pureVars

\* lines 541-542, 607-608: the walk is over, process_directory returns
Finish ==
    /\ pc = "walk"
    /\ pos.t \notin Topics
    /\ pc' = "off"
    /\ returned' = processed_count
    /\ prev' = [clean |-> failed = {} /\ ~limit_to_one, manifest |-> manifest]
    /\ UNCHANGED <<corpus, mode, alignment_files, clips, manifest,
                   limit_to_one, pos, cur, alignment_result, sentences,
                   success, processed_count, run, called, skipped, failed,
                   succeeded, interrupted, rows_saved>>
    /\ UNCHANGED faults
    /\ UNCHANGED <<alignment_response, api_calls>>
    /\ UNCHANGED cut_failed
    /\ UNCHANGED master_data
    /\ UNCHANGED data_dir_exists
    /\ UNCHANGED pureVars

\* the process is interrupted (segmenter_main.py lines 69-73: SIGINT calls
\* sys.exit(0)) or killed, at any point of the run; only the disk survives
Interrupt ==
    /\ pc # "off"
    /\ pc' = "off"
    /\ interrupted' = IF pc \in {"dump", "extract", "csv"} THEN {cur} ELSE {}
    /\ prev' = [clean |-> FALSE, manifest |-> manifest]
    /\ pos' = [t |-> 1, v |-> 1]
    /\ cur' = NoAudio
    /\ alignment_response' = NoResponse
    /\ api_calls' = 0
    /\ alignment_result' = NoResult
    /\ sentences' = <<>>
    /\ success' = FALSE
    /\ processed_count' = 0
    /\ returned' = -1
    /\ called' = <<>>
    /\ skipped' = {}
    /\ failed' = {}
    /\ succeeded' = {}
    /\ UNCHANGED <<corpus, mode, alignment_files, clips, manifest,
                   limit_to_one, run, rows_saved>>
    /\ faults < MaxFaults
    /\ faults' = faults + 1
    /\ cut_failed' = {}
    /\ UNCHANGED master_data
    /\ UNCHANGED data_dir_exists
    /\ UNCHANGED pureVars

Next ==
    \/ StartProcess
    \/ NextTopic
    \/ ListTopicError
    \/ ProcessError
    \/ SkipDone
    \/ CallSegment
    \/ AlignRaise
    \/ AlignBadShape
    \/ AlignReturn
    \/ DumpAlignment
    \/ DumpRaise
    \/ CutClip
    \/ ExtractRaise
    \/ ExtractReturn
    \/ SaveCsv
    \/ ItemReturn
    \/ Finish
    \/ Interrupt

Spec == Init /\ [][Next]_vars

\* ------------------------------------------------ segmentation on its own
BatchInitFixed ==
    /\ corpus = [t \in Topics |-> [transcript |-> TRUE, files |-> <<LentMp3>>,
                                    listable |-> TRUE]]
    /\ mode = "scan"
    /\ alignment_files = {}
    /\ clips = {}
    /\ manifest = <<>>
    /\ pc = "off"
    /\ limit_to_one = FALSE
    /\ pos = [t |-> 1, v |-> 1]
    /\ cur = NoAudio
    /\ alignment_response = NoResponse
    /\ api_calls = 0
    /\ alignment_result = NoResult
    /\ sentences = <<>>
    /\ success = FALSE
    /\ processed_count = 0
    /\ returned = -1
    /\ run = 0
    /\ called = <<>>
    /\ skipped = {}
    /\ failed = {}
    /\ succeeded = {}
    /\ interrupted = {}
    /\ rows_saved = {}
    /\ prev = [clean |-> FALSE, manifest |-> <<>>]
    /\ faults = 0
    /\ data_dir_exists = TRUE
    /\ master_data = NoMasterData
    /\ cut_failed = {}

SegInit ==
    /\ BatchInitFixed
    /\ ScrapeInitFixed
    /\ TripInitFixed
    /\ FileInitFixed
    /\ CleanInitFixed
    /\ seg_words = <<>>
    /\ word_dur \in Durations
    /\ out = <<>>
    /\ seg_pc = "input"

\* the service returns one more word record; words follow each other
AddWord ==
    /\ seg_pc = "input"
    /\ Len(seg_words) < MaxWords
    /\ \E w \in WordTexts :
           LET start == IF seg_words = <<>> THEN 0 ELSE Last(seg_words).end
           IN  seg_words' = Append(seg_words, WordData(w, start, start + word_dur))
    /\ UNCHANGED <<word_dur, out, seg_pc>>
    /\ UNCHANGED batchVars
    /\ UNCHANGED scrapeVars
    /\ UNCHANGED tripVars
    /\ UNCHANGED fileVars
    /\ UNCHANGED cleanVars

\* _extract_sentences_ffmpeg(alignment_result, audio_file_path, level, topic)
RunSegment ==
    /\ seg_pc = "input"
    /\ out' = extract_sentences_ffmpeg(seg_words, LevelOf(1),
                                       Sanitize(TopicName(1)))
    /\ seg_pc' = "done"
    /\ UNCHANGED <<seg_words, word_dur>>
    /\ UNCHANGED batchVars
    /\ UNCHANGED scrapeVars
    /\ UNCHANGED tripVars
    /\ UNCHANGED fileVars
    /\ UNCHANGED cleanVars

SegNext == AddWord \/ RunSegment

SpecSeg == SegInit /\ [][SegNext]_vars

\* --------------------------------------------- clean_transcript on its own
CleanInit ==
    /\ BatchInitFixed
    /\ ScrapeInitFixed
    /\ TripInitFixed
    /\ FileInitFixed
    /\ SegInitFixed
    /\ raw = <<>>
    /\ cleaned = <<>>
    /\ clean_pc = "input"

\* the transcript file holds one more piece
AddPiece ==
    /\ clean_pc = "input"
    /\ Len(raw) < MaxPieces
    /\ \E p \in Pieces : raw' = Append(raw, p)
    /\ UNCHANGED <<cleaned, clean_pc>>
    /\ UNCHANGED batchVars
    /\ UNCHANGED scrapeVars
    /\ UNCHANGED tripVars
    /\ UNCHANGED fileVars
    /\ UNCHANGED segVars

\* clean_transcript(transcript)
RunClean ==
    /\ clean_pc = "input"
    /\ cleaned' = clean_transcript(Flatten(raw))
    /\ clean_pc' = "done"
    /\ UNCHANGED raw
    /\ UNCHANGED batchVars
    /\ UNCHANGED scrapeVars
    /\ UNCHANGED tripVars
    /\ UNCHANGED fileVars
    /\ UNCHANGED segVars

CleanNext == AddPiece \/ RunClean

SpecClean == CleanInit /\ [][CleanNext]_vars

\* ---------------------------------------------- what the claims refer to
\* a word that ends with '.', '!' or '?'
Terminated(w) == Len(w) > 0 /\ w[Len(w)] \in {".", "!", "?"}

\* positions (1-based) at which the three marker words stand in a row
MarkerStarts ==
    {i \in 1..Len(seg_words) :
        /\ i + 2 <= Len(seg_words)
        /\ seg_words[i].word = Generalitat
        /\ seg_words[i + 1].word = de
        /\ seg_words[i + 2].word = Catalunya}

\* the first position that is not segmented
Cut ==
    IF MarkerStarts = {} THEN Len(seg_words) + 1
    ELSE CHOOSE i \in MarkerStarts : \A j \in MarkerStarts : i <= j

PreMarker == SubSeq(seg_words, 1, Cut - 1)

\* position of a word record in the input (start times are distinct)
IndexOf(wd) == (wd.start \div word_dur) + 1

\* positions of the input that lie in some span
Covered ==
    UNION {{IndexOf(out[k].words[j]) : j \in 1..Len(out[k].words)} :
              k \in 1..Len(out)}

NoWhitespace(text) == SelectSeq(text, LAMBDA c : c \notin Whitespace)

RECURSIVE JoinWords(_)
JoinWords(ws) ==
    IF ws = <<>> THEN <<>>
    ELSE IF Len(ws) = 1 THEN ws[1].word
    ELSE ws[1].word \o <<" ">> \o JoinWords(Tail(ws))

Texts(ws) == [i \in 1..Len(ws) |-> ws[i].word]

\* C7: segmentation stops at the first position where "Generalitat", "de",
\* "Catalunya" stand in a row: the positions that lie in a span are exactly
\* those before it (a lone "Generalitat" does not stop the scan), and all
\* positions when there is no such triple.
C7_MarkerCut ==
    seg_pc = "done" =>
        /\ Covered = 1..(Cut - 1)
        /\ MarkerStarts = {} => Covered = 1..Len(seg_words)

C7_Witness ==
    /\ seg_pc = "done"
    /\ Texts(seg_words) = <<Generalitat, Generalitat, de, Catalunya>>
    /\ Len(out) = 1
    /\ out[1].transcript = Generalitat

\* C8: a sentence ends exactly after each word before the marker that ends
\* with '.', '!' or '?': the number of spans is the number of such words,
\* plus one when the last word before the marker is not one of them; every
\* span but the last ends with such a word and none has one earlier.
C8_Boundaries ==
    seg_pc = "done" =>
        /\ Len(out) =
               Cardinality({i \in 1..Len(PreMarker) : Terminated(PreMarker[i].word)})
               + (IF PreMarker # <<>> /\ ~Terminated(Last(PreMarker).word)
                  THEN 1 ELSE 0)
        /\ \A k \in 1..Len(out) :
               /\ out[k].words # <<>>
               /\ k < Len(out) => Terminated(Last(out[k].words).word)
               /\ \A j \in 1..(Len(out[k].words) - 1) :
                      ~Terminated(out[k].words[j].word)

C8_Witness ==
    /\ seg_pc = "done"
    /\ Texts(seg_words) = <<Bon, DiaDot, Adeu, AmicDot>>
    /\ Len(out) = 2
    /\ out[1].transcript = Bon \o <<" ">> \o DiaDot
    /\ out[2].transcript = Adeu \o <<" ">> \o AmicDot
    /\ out[1].start_time = 0
    /\ out[1].end_time = out[2].start_time
    /\ out[2].end_time = 4 * word_dur

\* C9: the span texts, one after the other, are the texts of the words
\* before the marker up to whitespace, and the spans hold these words once
\* each, in input order.
C9_Concatenation ==
    seg_pc = "done" =>
        /\ NoWhitespace(Flatten([k \in 1..Len(out) |-> out[k].transcript]))
               = NoWhitespace(Flatten(Texts(PreMarker)))
        /\ Flatten([k \in 1..Len(out) |-> out[k].words]) = PreMarker

C9_Witness ==
    /\ seg_pc = "done"
    /\ Texts(seg_words) = <<JaBang, EmptyText, Hola, Generalitat>>
    /\ Len(out) = 2
    /\ out[2].transcript = Hola \o <<" ">> \o Generalitat

\* C10 as claimed: when no word ends with '.', '!' or '?' there is exactly
\* one span and it covers the entire input.
C10_Original ==
    (seg_pc = "done" /\ \A i \in 1..Len(seg_words) : ~Terminated(seg_words[i].word)) =>
        /\ Len(out) = 1
        /\ out[1].words = seg_words
        /\ out[1].start_time = seg_words[1].start
        /\ out[1].end_time = Last(seg_words).end

\* the words at the end of s that follow its last terminated word
RECURSIVE OpenTail(_)
OpenTail(s) ==
    IF s = <<>> \/ Terminated(Last(s).word) THEN <<>>
    ELSE Append(OpenTail(SubSeq(s, 1, Len(s) - 1)), Last(s))

\* C10, amended: when no word before the marker ends with '.', '!' or '?'
\* and there is such a word, there is exactly one span and it covers the
\* words before the marker; when no word stands before the marker there is
\* no span; unterminated words at the end of the words before the marker
\* form the last span.
C10_Unterminated ==
    seg_pc = "done" =>
        /\ (PreMarker # <<>> /\ \A i \in 1..Len(PreMarker) : ~Terminated(PreMarker[i].word)) =>
               /\ Len(out) = 1
               /\ out[1].words = PreMarker
               /\ out[1].start_time = PreMarker[1].start
               /\ out[1].end_time = Last(PreMarker).end
               /\ out[1].transcript = Strip(JoinWords(PreMarker))
        /\ PreMarker = <<>> => out = <<>>
        /\ OpenTail(PreMarker) # <<>> =>
               /\ out # <<>>
               /\ Last(out).words = OpenTail(PreMarker)

C10_Witness ==
    /\ seg_pc = "done"
    /\ Texts(seg_words) = <<Hola, Generalitat, de, Catalunya>>
    /\ Len(out) = 1
    /\ out[1].transcript = Hola
    /\ out[1].end_time = word_dur

\* C11: every span holds a non-empty run of consecutive input words, starts
\* at its first word's start, ends at its last word's end, is cut with the
\* duration end_time - start_time, and the k-th span of the audio file has
\* the clip file name with index k (1, 2, ..., n in emission order).
C11_SpanInvariants ==
    seg_pc = "done" =>
        \A k \in 1..Len(out) :
            /\ out[k].words # <<>>
            /\ \E i \in 1..Len(seg_words) :
                   SubSeq(seg_words, i, i + Len(out[k].words) - 1) = out[k].words
            /\ out[k].start_time = out[k].words[1].start
            /\ out[k].end_time = Last(out[k].words).end
            /\ out[k].duration = out[k].end_time - out[k].start_time
            /\ out[k].filename = Filename(LevelOf(1), Sanitize(TopicName(1)), k)

C11_Witness ==
    /\ seg_pc = "done"
    /\ word_dur = 2
    /\ Texts(seg_words) = <<Hola, QueQ, JaBang, Adeu>>
    /\ Len(out) = 3
    /\ out[1].duration = 4
    /\ out[3].start_time = 6
    /\ out[3].filename =
           <<"a", "1", "_", "e", "l", "_", "b", "a", "r", "_", "s", "e", "n",
             "t", "e", "n", "c", "e", "3", ".", "m", "p", "3">>

\* ------------------------------------------------ the batch in the claims
\* the work items of every topic, in discovery order
Items == [t \in Topics |-> WorkItems(master_data, mode, t, corpus[t])]

\* walker positions that hold a work item of items
PositionsOf(items) ==
    UNION {{[t |-> t, v |-> v] : v \in 1..Len(items[t])} : t \in Topics}

\* p comes before q in discovery order
PosLess(p, q) == p.t < q.t \/ (p.t = q.t /\ p.v < q.v)

\* C1: an audio file whose marker exists when the walker reaches it is not
\* passed to segment_audio_file in that run: every call is for a file
\* without marker, a skipped file is not among the called ones, and the
\* alignment, cutting and appending steps only work on a called file.
C1_DoneNeverSegmented ==
    /\ [][Len(called') > Len(called) => Last(called') \notin alignment_files]_vars
    /\ [](skipped \cap Range(called) = {})
    /\ [](pc \in {"align", "dump", "extract", "csv", "ret"} =>
              cur \in Range(called) /\ cur \notin skipped)

C1_Witness ==
    /\ pc = "off"
    /\ returned >= 0
    /\ \E a \in skipped :
           /\ a \in alignment_files
           /\ a \notin rows_saved
           /\ a \notin Range(called)

\* C2: after a complete run with limit_to_one=False in which every
\* attempted item succeeded, the next run calls segment_audio_file for no
\* file, counts 0 and leaves the manifest as the first run left it.
C2_Idempotent ==
    (pc # "off" /\ prev.clean) =>
        /\ called = <<>>
        /\ processed_count = 0
        /\ manifest = prev.manifest

\* C3: the marker of an audio file exists only once its manifest rows are
\* written.
C3_MarkerAfterRows == \A a \in alignment_files : a \in rows_saved

\* C4: an audio file that was in work (after the alignment call returned)
\* when the process was interrupted has no marker, so that the next run
\* processes it again.
C4_InterruptedRedone == \A a \in interrupted : a \notin alignment_files

C6_AppendOnly ==
    /\ [][IsPrefix(manifest, manifest')]_vars
    /\ [](manifest # <<>> =>
              /\ manifest[1] = Header
              /\ \A i \in 2..Len(manifest) : manifest[i] # Header)

C6_Witness ==
    /\ run = 2
    /\ pc = "ret"
    /\ Len(prev.manifest) > 1
    /\ Len(manifest) > Len(prev.manifest)

\* a response that is neither a dict with "wordstamps" nor a list
BadShape(r) ==
    /\ ~(r.type = "dict" /\ "wordstamps" \in r.keys)
    /\ r.type # "list"

\* C12: when replicate.run raises or its response is neither a dict with
\* "wordstamps" nor a list, segment_audio_file returns False after that one
\* call, without marker, clip or manifest row, and the walker does not count
\* the file; a dict with "wordstamps" and a list both go on to the dump.
C12_AlignmentFailure ==
    /\ [][(pc = "align" /\ pc' # "off") =>
              /\ api_calls' = 1
              /\ IF alignment_response' = NoResponse \/ BadShape(alignment_response')
                 THEN /\ pc' = "ret"
                      /\ ~success'
                      /\ UNCHANGED <<alignment_files, clips, manifest>>
                 ELSE pc' = "dump"]_vars
    /\ []((pc = "ret" /\ ~success
               /\ (alignment_response = NoResponse
                   \/ BadShape(alignment_response))) =>
              /\ api_calls = 1
              /\ cur \notin alignment_files
              /\ cur \notin rows_saved
              /\ sentences = <<>>)
    /\ [][(pc = "ret" /\ ~success /\ pc' # "off") =>
              /\ cur \in failed'
              /\ cur \notin succeeded'
              /\ processed_count' = processed_count
              /\ UNCHANGED <<alignment_files, clips, manifest>>]_vars

C12_Witness ==
    /\ pc = "ret"
    /\ ~success
    /\ alignment_response = ErrorDict
    /\ api_calls = 1
    /\ cur \notin alignment_files
    /\ clips = {}
    /\ manifest = <<Header>>

\* C13: when ffmpeg exits non-zero for one span, the remaining spans of the
\* file are still processed, and the rows appended for the file are those
\* of the spans whose cut succeeded, without a row for a span whose cut
\* failed.
C13_FailedCutNoRow ==
    /\ [](pc = "csv" => Len(sentences) = Len(AllSentences))
    /\ [][(pc = "csv" /\ cur \in rows_saved') =>
              manifest' = manifest \o
                  Rows(SelectSeq(sentences,
                                 LAMBDA s : s.filename \notin cut_failed))]_vars

\* C14: when the append of the rows of a file raises, segment_audio_file
\* returns False for the file and the walker does not count it.
C14_CsvFailureSurfaced ==
    /\ [][(pc = "csv" /\ pc' = "ret" /\ cur \notin rows_saved') =>
              ~success']_vars
    /\ [][(pc = "ret" /\ cur \notin rows_saved /\ (pc' = "walk" \/ returned' >= 0)) =>
              /\ processed_count' = processed_count
              /\ cur \notin succeeded']_vars

\* clip file names _extract_sentences_ffmpeg makes for topic t
ClipNames(t) ==
    {Filename(LevelOf(t), Sanitize(TopicName(t)), k) : k \in 1..Len(Response)}

\* C15: a topic without transcript or without audio file is skipped: no file
\* of it is passed to segment_audio_file, it gets no marker, clip or manifest
\* row, the count stays and the walker goes on with the next topic.
C15_TopicSkipped ==
    /\ [](\A t \in Topics :
              (~corpus[t].transcript \/ corpus[t].files = <<>>) =>
                  /\ \A a \in Range(called) \cup alignment_files \cup succeeded \cup failed :
                         a.t # t
                  /\ pc \in {"align", "dump", "extract", "csv", "ret"} => cur.t # t
                  /\ LET names == ClipNames(t)
                     IN  /\ names \cap clips = {}
                         /\ \A i \in 1..Len(manifest) :
                                manifest[i][1] \notin names)
    /\ [][(/\ pc = "walk"
           /\ pos.t \in Topics
           /\ ~corpus[pos.t].transcript \/ corpus[pos.t].files = <<>>
           /\ pc' # "off") =>
              /\ pc' = "walk"
              /\ pos' = [t |-> pos.t + 1, v |-> 1]
              /\ processed_count' = processed_count]_vars

C15_Witness ==
    /\ pc = "off"
    /\ returned = 1
    /\ ~corpus[1].transcript \/ corpus[1].files = <<>>
    /\ \E a \in succeeded : a.t = 2
    /\ \A a \in alignment_files : a.t = 2

\* C16: with limit_to_one=True the run ends with the first file for which
\* segment_audio_file returned True: that file is the last one called, the
\* run returns 1, and a file that failed or was skipped does not end the run.
C16_StopsAfterFirst ==
    /\ []((limit_to_one /\ succeeded # {}) =>
              /\ pc = "off"
              /\ returned = 1
              /\ Cardinality(succeeded) = 1
              /\ Last(called) \in succeeded)
    /\ [][(limit_to_one /\ pc = "ret" /\ ~success) => returned' = -1]_vars
    /\ [][(limit_to_one /\ pc = "walk" /\ skipped' # skipped /\ skipped' # {}) =>
              /\ pc' = "walk"
              /\ returned' = -1]_vars

C16_Witness ==
    /\ limit_to_one
    /\ pc = "off"
    /\ returned = 1
    /\ \E a \in failed, b \in succeeded : a # b
    /\ Items[2] # <<>>
    /\ \A a \in Range(called) \cup skipped : a.t = 1

\* C17: of a topic that has an audio file with "rapid" in its name, only
\* files with "rapid" in their name are passed to segment_audio_file.
C17_RapidPreferred ==
    \A a \in Range(called) :
        (\E i \in 1..Len(corpus[a.t].files) : IsRapidName(corpus[a.t].files[i])) =>
            IsRapidName(a.f)

\* C18: with master_data.json present, in any of its forms, a complete walk
\* discovers every topic that has a transcript and audio: levels with the
\* topics under "topics" and levels that are a list are walked, and without
\* "levels" key or with a level entry of another shape the directory scan
\* finds the topics.
C18_IndexShapes ==
    (/\ master_data.present
     /\ pc = "off"
     /\ returned >= 0
     /\ ~limit_to_one
     /\ pos.t \notin Topics) =>
        \A t \in Topics :
            (corpus[t].transcript /\ corpus[t].files # <<>>) =>
                \E a \in Range(called) \cup skipped : a.t = t

\* C19: after a response of an accepted shape the next step of
\* segment_audio_file writes <audio_path>_alignment.json, before any span
\* is made (or the write raises and the file is given up without any span);
\* the file is there during extraction, cutting and the manifest write and
\* when segment_audio_file returns True, and no step removes it, also when
\* extraction returns no span.
C19_RawResponseKept ==
    /\ [][(pc = "dump" /\ pc' # "off") =>
              /\ sentences' = <<>>
              /\ clips' = clips
              /\ \/ pc' = "extract" /\ cur \in alignment_files'
                 \/ pc' = "ret" /\ ~success']_vars
    /\ []((pc \in {"extract", "csv"} \/ (pc = "ret" /\ success)) =>
              cur \in alignment_files)
    /\ [][alignment_files \subseteq alignment_files']_vars

C19_Witness ==
    /\ pc = "ret"
    /\ success
    /\ ~alignment_result.is_list
    /\ sentences = <<>>
    /\ cur \in alignment_files
    /\ manifest = <<Header>>

\* C20: without data directory process_directory calls segment_audio_file
\* for no file and returns 0, and main exits with a non-zero status; with
\* the data directory there, no failure ends the run: process_directory
\* never leaves the walk by an exception, and a run that returned without
\* stopping for limit_to_one has walked all topics.
C20_OnlyRootFatal ==
    /\ (~data_dir_exists /\ pc = "off" /\ returned >= 0) =>
           /\ returned = 0
           /\ called = <<>>
           /\ ExitStatus(returned) # 0
    /\ data_dir_exists => pc # "raised"
    /\ (data_dir_exists /\ pc = "off" /\ returned >= 0
            /\ ~(limit_to_one /\ succeeded # {})) =>
           pos.t \notin Topics

\* C21: the count process_directory returns is the number of audio files
\* for which segment_audio_file returned True in that run.
C21_CountIsSuccesses ==
    (pc = "off" /\ returned >= 0) => returned = Cardinality(succeeded)

\* C22: what clean_transcript returns has no newline, no two spaces in a
\* row and no whitespace at its start or end.
C22_CleanNormalForm ==
    clean_pc = "done" =>
        /\ \A i \in 1..Len(cleaned) : cleaned[i] # "\n"
        /\ \A i \in 1..(Len(cleaned) - 1) :
               ~(cleaned[i] = " " /\ cleaned[i + 1] = " ")
        /\ cleaned # <<>> =>
               /\ cleaned[1] \notin Whitespace
               /\ Last(cleaned) \notin Whitespace

C22_Witness ==
    /\ clean_pc = "done"
    /\ raw = <<<<"a">>, <<"\n">>, <<"\t">>, <<"a">>>>
    /\ cleaned = <<"a", " ", "a">>

\* C23: an empty word list and a word list that starts with "Generalitat",
\* "de", "Catalunya" give no span (and so no run of ffmpeg); one word that
\* ends with '.', '!' or '?' gives one span that holds this word.
C23_EdgeCases ==
    seg_pc = "done" =>
        /\ seg_words = <<>> => out = <<>>
        /\ 1 \in MarkerStarts => out = <<>>
        /\ (Len(seg_words) = 1 /\ Terminated(seg_words[1].word)) =>
               /\ Len(out) = 1
               /\ out[1].words = seg_words

C23_Witness ==
    /\ seg_pc = "done"
    /\ Texts(seg_words) = <<Generalitat, de, Catalunya, DiaDot>>
    /\ out = <<>>

\* ------------------------------------------------------------ SpecFile
\* segmenter_main.py with --specific-file

FileInit ==
    /\ BatchInitFixed
    /\ ScrapeInitFixed
    /\ TripInitFixed
    /\ SegInitFixed
    /\ CleanInitFixed
    /\ args \in ArgsChoices
    /\ disk \in DiskChoices
    /\ params = NoParams
    /\ alignment_text = <<>>
    /\ filename = <<>>
    /\ exit_code = -1
    /\ main_pc = "args"

ArgsComplete ==
    /\ Exists(disk, args.specific_file)
    /\ args.transcript_file # <<>>
    /\ Exists(disk, args.transcript_file)
    /\ args.level # <<>>
    /\ args.topic # <<>>

\* one of the checks of lines 85-99 fails: return 1
SpecificFileReject ==
    /\ main_pc = "args"
    /\ ~ArgsComplete
    /\ exit_code' = 1
    /\ main_pc' = "done"
    /\ UNCHANGED <<args, disk, params, alignment_text, filename>>
    /\ UNCHANGED batchVars
    /\ UNCHANGED scrapeVars
    /\ UNCHANGED tripVars
    /\ UNCHANGED <<segVars, cleanVars>>

\* the call of lines 102-107
SpecificFileCall ==
    /\ main_pc = "args"
    /\ ArgsComplete
    /\ params' = BindPositional(<<args.specific_file, args.transcript_file,
                                  args.level, args.topic>>)
    /\ main_pc' = "call"
    /\ UNCHANGED <<args, disk, alignment_text, filename, exit_code>>
    /\ UNCHANGED batchVars
    /\ UNCHANGED scrapeVars
    /\ UNCHANGED tripVars
    /\ UNCHANGED <<segVars, cleanVars>>

\* segment_audio_file up to the alignment text (lines 84-101)
GetTranscript ==
    /\ main_pc = "call"
    /\ IF params.transcript_text # <<>>
       THEN /\ alignment_text' =
                   clean_transcript(params.transcript_text) \o MarkerSuffix
            /\ main_pc' = "aligned"
            /\ UNCHANGED exit_code
       ELSE IF params.transcript_path # <<>>
                  /\ Exists(disk, params.transcript_path)
            THEN /\ alignment_text' =
                        clean_transcript(Read(disk, params.transcript_path))
                            \o MarkerSuffix
                 /\ main_pc' = "aligned"
                 /\ UNCHANGED exit_code
            ELSE /\ exit_code' = 1
                 /\ main_pc' = "done"
                 /\ UNCHANGED alignment_text
    /\ UNCHANGED <<args, disk, params, filename>>
    /\ UNCHANGED batchVars
    /\ UNCHANGED scrapeVars
    /\ UNCHANGED tripVars
    /\ UNCHANGED <<segVars, cleanVars>>

\* the rest of segment_audio_file: it fails (return False, main returns 1)
\* or the first clip is named (lines 150, 212-214) and main returns 0
NameClips ==
    /\ main_pc = "aligned"
    /\ \E ok \in BOOLEAN :
          IF ok
          THEN /\ filename' = Filename(params.level,
                                       Sanitize(params.topic_name), 1)
               /\ exit_code' = 0
          ELSE /\ exit_code' = 1
               /\ UNCHANGED filename
    /\ main_pc' = "done"
    /\ UNCHANGED <<args, disk, params, alignment_text>>
    /\ UNCHANGED batchVars
    /\ UNCHANGED scrapeVars
    /\ UNCHANGED tripVars
    /\ UNCHANGED <<segVars, cleanVars>>

FileNext ==
    SpecificFileReject \/ SpecificFileCall \/ GetTranscript \/ NameClips

SpecFile == FileInit /\ [][FileNext]_vars

\* C24: in specific-file mode the text sent for alignment is the cleaned
\* text of the file named by --transcript-file (with the marker appended),
\* and the clips are named <level>_<topic>_sentence<k>.mp3 with the level and
\* the topic of the command line.
C24_SpecificFile ==
    (main_pc = "done" /\ exit_code = 0) =>
        /\ alignment_text =
               clean_transcript(Read(disk, args.transcript_file))
                   \o MarkerSuffix
        /\ filename = Filename(args.level, Sanitize(args.topic), 1)

\* C25: when segment_audio_file returns False, the file
\* <audio_path>_alignment.json of the audio file is not there (the walker
\* calls it only for files without this file).
C25_NoMarkerOnFailure ==
    (pc = "ret" /\ ~success) => cur \notin alignment_files

\* C26: when segment_audio_file returns True, the manifest has gained the
\* rows of the sentences of the words before the marker, one row for each
\* sentence, in their order, each with its file name and text.
C26_RowPerSpan ==
    [][(pc = "csv" /\ pc' = "ret" /\ success') =>
           manifest' = manifest \o Rows(AllSentences)]_vars

\* ------------------------------------------------------------ SpecTrip
\* a cleaned transcript, aligned word by word and segmented

TripInit ==
    /\ BatchInitFixed
    /\ ScrapeInitFixed
    /\ SegInitFixed
    /\ CleanInitFixed
    /\ FileInitFixed
    /\ clean_words = <<>>
    /\ trip_out = <<>>
    /\ trip_pc = "input"

\* the cleaned transcript has one more word
AddTranscriptWord ==
    /\ trip_pc = "input"
    /\ Len(clean_words) < MaxTranscript
    /\ \E w \in TripWords : clean_words' = Append(clean_words, w)
    /\ UNCHANGED <<trip_out, trip_pc>>
    /\ UNCHANGED batchVars
    /\ UNCHANGED scrapeVars
    /\ UNCHANGED <<segVars, cleanVars, fileVars>>

\* lines 101, 150: the augmented text is aligned and segmented
AlignAndSegment ==
    /\ trip_pc = "input"
    /\ trip_out' = extract_sentences_ffmpeg(Aligned(clean_words), LevelOf(1),
                                            Sanitize(TopicName(1)))
    /\ trip_pc' = "done"
    /\ UNCHANGED clean_words
    /\ UNCHANGED batchVars
    /\ UNCHANGED scrapeVars
    /\ UNCHANGED <<segVars, cleanVars, fileVars>>

TripNext == AddTranscriptWord \/ AlignAndSegment

SpecTrip == TripInit /\ [][TripNext]_vars

\* the texts of the words of the sentences, in order
RECURSIVE SpanTexts(_)
SpanTexts(ss) ==
    IF ss = <<>> THEN <<>> ELSE Texts(ss[1].words) \o SpanTexts(Tail(ss))

\* C27: when the service returns exactly the words of the transcript
\* followed by "Generalitat", "de", "Catalunya", the words of the sentences
\* are exactly the words of the transcript, in order.
C27_MarkerRoundTrip ==
    trip_pc = "done" => SpanTexts(trip_out) = clean_words

\* C28: a clip is never written over a clip that is already there, and a
\* row appended to the manifest never carries a file name that an earlier
\* row carries (a file with marker is never segmented again, so the earlier
\* clip and row are those of another audio file).
C28_UniqueClipNames ==
    /\ [][(pc = "extract" /\ clips' # clips) =>
              Last(sentences').filename \notin clips]_vars
    /\ [][(pc = "csv" /\ manifest' # manifest) =>
              \A i \in (Len(manifest) + 1)..Len(manifest') :
                  \A j \in 1..Len(manifest) :
                      manifest'[i][1] # manifest[j][1]]_vars

\* C29: with an index that lists every topic with the files of its
\* directory, the index-driven walk passes to segment_audio_file the file
\* the directory scan passes for the topic, and at most one file of a topic
\* in a run.
C29_SameDiscovery ==
    /\ [][(/\ pc = "walk"
           /\ pc' = "align"
           /\ mode = "index"
           /\ \A t \in Topics : LevelRead(master_data, t)) =>
              Candidates("scan", cur'.t, corpus[cur'.t]) = <<cur'>>]_vars
    /\ [](\A i, j \in 1..Len(called) :
              called[i].t = called[j].t => called[i] = called[j])

\* --------------------------------------------------------- SpecScraper
\* GencatScraper.run over the levels, run after run; progress.json and the
\* .completed files stay between the runs

ScrapeInit ==
    /\ BatchInitFixed
    /\ SegInitFixed
    /\ CleanInitFixed
    /\ FileInitFixed
    /\ TripInitFixed
    /\ progress_data = NewProgress
    /\ completed_markers = {}
    /\ level_stats = NoStats
    /\ level_index = 1
    /\ scrape_run = 0
    /\ scrape_pc = "off"

\* GencatScraper.run starts (lines 500-509)
ScraperStart ==
    /\ scrape_pc = "off"
    /\ scrape_run < MaxScrapeRuns
    /\ scrape_run' = scrape_run + 1
    /\ level_index' = 1
    /\ level_stats' = NoStats
    /\ scrape_pc' = "run"
    /\ UNCHANGED <<progress_data, completed_markers>>
    /\ UNCHANGED batchVars
    /\ UNCHANGED <<segVars, cleanVars, fileVars, tripVars>>

\* lines 512-515: a level in completed_levels is skipped
SkipLevel ==
    /\ scrape_pc = "run"
    /\ level_index <= Len(LevelCodes)
    /\ LevelCodes[level_index] \in Range(progress_data.completed_levels)
    /\ level_index' = level_index + 1
    /\ level_stats' = NoStats
    /\ UNCHANGED <<progress_data, completed_markers, scrape_run, scrape_pc>>
    /\ UNCHANGED batchVars
    /\ UNCHANGED <<segVars, cleanVars, fileVars, tripVars>>

\* lines 517-536 with process_level returning None (no iframe, line 393)
LevelUnavailable ==
    /\ scrape_pc = "run"
    /\ level_index <= Len(LevelCodes)
    /\ LevelCodes[level_index] \notin Range(progress_data.completed_levels)
    /\ progress_data' = update_level_status(progress_data,
                                            LevelCodes[level_index],
                                            FALSE, TRUE)
    /\ level_index' = level_index + 1
    /\ level_stats' = NoStats
    /\ UNCHANGED <<completed_markers, scrape_run, scrape_pc>>
    /\ UNCHANGED batchVars
    /\ UNCHANGED <<segVars, cleanVars, fileVars, tripVars>>

\* lines 517-536 with process_level (lines 405-498) returning its counts:
\* the topics in got are downloaded and marked in this call
ProcessLevel ==
    /\ scrape_pc = "run"
    /\ level_index <= Len(LevelCodes)
    /\ LevelCodes[level_index] \notin Range(progress_data.completed_levels)
    /\ LET level_code == LevelCodes[level_index]
           marked == {t \in LevelTopics :
                          <<level_code, t>> \in completed_markers}
       IN  \E got \in SUBSET (LevelTopics \ marked) :
               LET stats == LevelStatsOf(marked, got)
                   pd1 == update_level_status(progress_data, level_code,
                                              FALSE, TRUE)
                   \* line 495, inside process_level
                   pd2 == update_stats(pd1, stats)
                   is_complete == stats.completed = stats.total
                   \* lines 532-534, in run
                   pd3 == update_level_status(pd2, level_code, is_complete,
                                              FALSE)
                   pd4 == update_stats(pd3, stats)
               IN  /\ completed_markers' =
                          completed_markers \cup {<<level_code, t>> : t \in got}
                   /\ level_stats' = stats
                   /\ progress_data' = pd4
    /\ level_index' = level_index + 1
    /\ UNCHANGED <<scrape_run, scrape_pc>>
    /\ UNCHANGED batchVars
    /\ UNCHANGED <<segVars, cleanVars, fileVars, tripVars>>

\* lines 538-556: the loop is over
ScraperEnd ==
    /\ scrape_pc = "run"
    /\ level_index > Len(LevelCodes)
    /\ scrape_pc' = "off"
    /\ level_stats' = NoStats
    /\ UNCHANGED <<progress_data, completed_markers, level_index, scrape_run>>
    /\ UNCHANGED batchVars
    /\ UNCHANGED <<segVars, cleanVars, fileVars, tripVars>>

ScrapeNext ==
    \/ ScraperStart
    \/ SkipLevel
    \/ LevelUnavailable
    \/ ProcessLevel
    \/ ScraperEnd

SpecScraper == ScrapeInit /\ [][ScrapeNext]_vars

\* C30: when run has processed a level, the three counters of
\* progress.json have grown by the counts process_level returned for the
\* level; a level is in completed_levels at most once, and it is added only
\* when its completed count equals its total.
C30_StatsCountedOnce ==
    /\ [][(scrape_pc = "run" /\ level_index' = level_index + 1
             /\ level_stats' # NoStats) =>
              /\ progress_data'.stats.total_topics =
                     progress_data.stats.total_topics + level_stats'.total
              /\ progress_data'.stats.completed_topics =
                     progress_data.stats.completed_topics
                         + level_stats'.completed
              /\ progress_data'.stats.skipped_topics =
                     progress_data.stats.skipped_topics + level_stats'.skipped
              /\ progress_data'.completed_levels # progress_data.completed_levels
                     => level_stats'.completed = level_stats'.total]_vars
    /\ [](\A i, j \in 1..Len(progress_data.completed_levels) :
              progress_data.completed_levels[i] =
                  progress_data.completed_levels[j] => i = j)

====
